---- MODULE Spec2Model ----
(***************************************************************************)
(* Model of the widget proxy.                                              *)
(*                                                                         *)
(*  - src/src/server.js : the dependency-free server: the request handler  *)
(*    of http.createServer and proxyRequest with its two modes (stream and *)
(*    transform).  Specification Spec.                                     *)
(*  - src/unnamed/part_002 (ProxyService) and src/src/routes/health.js     *)
(*    (createProxyRouter): the cache-backed widget and asset routes.       *)
(*    Specification CacheSpec.                                             *)
(*                                                                         *)
(* Text is a sequence of tokens.  The tokens are the pieces of the strings *)
(* the rewrite rules of proxyRequest mention, cut so that every occurrence *)
(* of a rule's pattern in a concatenation of tokens begins and ends at a   *)
(* token boundary; a match on tokens is then a match on characters.        *)
(***************************************************************************)
EXTENDS Integers, Sequences, FiniteSets, Bags, TLC

VARIABLES
    phase,      \* server.js: where the one request under observation stands
    req,        \* server.js: the inbound request (method, pathname, search)
    call,       \* server.js: the arguments of the proxyRequest call
    up,         \* server.js: the upstream response (status, headers, body)
    got,        \* server.js: number of upstream chunks received so far
    data,       \* server.js: proxyRequest's buffer `data` (transform mode)
    res,        \* server.js: the client response
    config,     \* ProxyService: this.config
    site,       \* ProxyService: the headers the upstream answers with
    cache,      \* ProxyService: this.cache, key -> entry
    now,        \* ProxyService: the clock, in seconds
    calls,      \* ProxyService: the calls awaiting the upstream, a bag
    log         \* ProxyService: the answer a route handler is sending

serverVars == <<phase, req, call, up, got, data, res>>
cacheVars == <<config, site, cache, now, calls, log>>
vars == <<phase, req, call, up, got, data, res,
          config, site, cache, now, calls, log>>

(***************************************************************************)
(* Bounds.                                                                 *)
(***************************************************************************)
\* Largest number of chunks an upstream body arrives in.
MaxChunks == 2
\* The clock stops here.
MaxTime == 3

(***************************************************************************)
(* Sequences of tokens.                                                    *)
(***************************************************************************)
RECURSIVE Flatten(_)
\* Buffer.concat of the chunks of a body.
Flatten(chunks) ==
    IF chunks = <<>> THEN <<>> ELSE Head(chunks) \o Flatten(Tail(chunks))

\* pat occurs in text at position i.
MatchesAt(text, pat, i) ==
    /\ i + Len(pat) - 1 <= Len(text)
    /\ \A j \in 1..Len(pat) : text[i + j - 1] = pat[j]

\* String.prototype.startsWith.
StartsWith(text, pat) == MatchesAt(text, pat, 1)

RECURSIVE ReplaceAll(_, _, _)
\* String.prototype.replace with a global regular expression of literal
\* characters: every match, leftmost first, matches not overlapping.
ReplaceAll(text, pat, rep) ==
    IF text = <<>> THEN <<>>
    ELSE IF MatchesAt(text, pat, 1)
         THEN rep \o ReplaceAll(SubSeq(text, Len(pat) + 1, Len(text)), pat, rep)
         ELSE <<Head(text)>> \o ReplaceAll(Tail(text), pat, rep)

RECURSIVE ReplaceFirst(_, _, _)
\* String.prototype.replace with a string pattern: the first match only.
ReplaceFirst(text, pat, rep) ==
    IF text = <<>> THEN <<>>
    ELSE IF MatchesAt(text, pat, 1)
         THEN rep \o SubSeq(text, Len(pat) + 1, Len(text))
         ELSE <<Head(text)>> \o ReplaceFirst(Tail(text), pat, rep)

RECURSIVE Count(_, _)
\* Number of occurrences of pat in text.
Count(text, pat) ==
    IF text = <<>> THEN 0
    ELSE (IF MatchesAt(text, pat, 1) THEN 1 ELSE 0) + Count(Tail(text), pat)

(***************************************************************************)
(* The strings of the rewrite rules (server.js 157-175), as tokens.        *)
(***************************************************************************)
Q == "\""
\* https://lt-fn.sir-sportradar.com
HostLt == <<"http", "s", "://", "lt-fn", ".sir-sportradar.com">>
\* https://ws-fn.sir-sportradar.com
HostWs == <<"http", "s", "://", "ws-fn", ".sir-sportradar.com">>
\* http://localhost:3001/api/lt-fn
ProxyLt == <<"http", "://", "localhost:3001/api/", "lt-fn">>
\* http://localhost:3001/api/ws-fn
ProxyWs == <<"http", "://", "localhost:3001/api/", "ws-fn">>
\* "lmtFishnetFeedsUrl":"
KeyLmt == <<Q, "lmtFishnetFeedsUrl", Q, ":", Q>>
\* "cardsFishnetFeedsUrl":"
KeyCards == <<Q, "cardsFishnetFeedsUrl", Q, ":", Q>>

\* The four rules in the order proxyRequest applies them.
\* A bug the rewrite could have: a field rule whose value is not the one
\* the bare-host rule gives.
CardsFieldRuleOwnValue == [pat |-> KeyCards \o HostWs \o <<Q>>, rep |-> KeyCards \o ProxyLt \o <<Q>>]
LmtFieldRule == [pat |-> KeyLmt \o HostLt \o <<Q>>, rep |-> KeyLmt \o ProxyLt \o <<Q>>]
CardsFieldRule == [pat |-> KeyCards \o HostWs \o <<Q>>, rep |-> KeyCards \o ProxyWs \o <<Q>>]
\* A bug the rewrite could have: a replacement that still names the feed host.
LtHostRuleReentrant == [pat |-> HostLt, rep |-> ProxyLt \o <<"/">> \o HostLt]
LtHostRule == [pat |-> HostLt, rep |-> ProxyLt]
WsHostRule == [pat |-> HostWs, rep |-> ProxyWs]

\* A bug the rewrite could have: a rule without the g flag.
ApplyRuleOnce(text, rule) == ReplaceFirst(text, rule.pat, rule.rep)
ApplyRule(text, rule) == ReplaceAll(text, rule.pat, rule.rep)

\* server.js 157-175: the four substitutions.
RewriteWidgetScript(text) ==
    ApplyRule(ApplyRule(ApplyRule(ApplyRule(text, LmtFieldRule),
                                  CardsFieldRule), LtHostRule), WsHostRule)

(***************************************************************************)
(* Buffers.  A buffer is [z, bytes]: the bytes are the tokens of `bytes`   *)
(* compressed with z ("none": not compressed).  Token "0xFF" is a byte     *)
(* that is no UTF-8; token "e-acute" is one character of two bytes.        *)
(***************************************************************************)
Zlib == {"gzip", "br", "deflate"}

Raw(text) == [z |-> "none", bytes |-> text]

\* UTF-8 length of a token in bytes.
Utf8Len(tok) ==
    CASE tok = "http" -> 4
      [] tok = "s" -> 1
      [] tok = "://" -> 3
      [] tok = "lt-fn" -> 5
      [] tok = "ws-fn" -> 5
      [] tok = ".sir-sportradar.com" -> 19
      [] tok = "localhost:3001/api/" -> 19
      [] tok = "lmtFishnetFeedsUrl" -> 18
      [] tok = "cardsFishnetFeedsUrl" -> 20
      [] tok = "e-acute" -> 2
      [] tok = "U+FFFD" -> 3
      [] OTHER -> 1

\* The same in UTF-16 code units (String.prototype.length).
Utf16Len(tok) ==
    IF tok \in {"e-acute", "U+FFFD", "0xFF"} THEN 1 ELSE Utf8Len(tok)

RECURSIVE SumLen(_)
SumLen(ns) == IF ns = <<>> THEN 0 ELSE Head(ns) + SumLen(Tail(ns))

\* String.prototype.length of a text.
StringLength(text) == SumLen([i \in 1..Len(text) |-> Utf16Len(text[i])])

\* Buffer.prototype.length.  The size of a compressed buffer is the
\* upstream's business: the proxy never computes it, only forwards it.
ByteLength(buf) ==
    IF buf.z = "none"
    THEN SumLen([i \in 1..Len(buf.bytes) |-> Utf8Len(buf.bytes[i])])
    ELSE 2 + Len(buf.bytes)

\* Buffer.prototype.toString(): UTF-8 decoding, U+FFFD for what is no UTF-8.
\* The bytes of a compressed buffer decode to no text of the original.
BufferToString(buf) ==
    [i \in 1..Len(buf.bytes) |->
        IF buf.z = "none" /\ buf.bytes[i] # "0xFF" THEN buf.bytes[i] ELSE "U+FFFD"]

\* Buffer.from(text, 'utf8').
BufferFrom(text) == Raw(text)

\* server.js 182-183: buf.length of Buffer.from(responseText, 'utf8').
ContentLengthOf(responseText) == ByteLength(BufferFrom(responseText))

\* zlib.gunzipSync / brotliDecompressSync / inflateSync: the decompressed
\* buffer, or a throw when the bytes are not in that format.
Decompress(codec, buf) ==
    IF buf.z = codec THEN [ok |-> TRUE, buf |-> Raw(buf.bytes)]
    ELSE [ok |-> FALSE, buf |-> buf]

\* A bug: the fallback dropped, an undecodable body served empty.
DecodeBodyNoFallback(contentEncoding, buf) ==
    IF contentEncoding \in Zlib /\ Decompress(contentEncoding, buf).ok
    THEN Decompress(contentEncoding, buf).buf ELSE Raw(<<>>)
\* server.js 142-152: finalData.
DecodeBody(contentEncoding, buf) ==
    IF contentEncoding \in Zlib /\ Decompress(contentEncoding, buf).ok
    THEN Decompress(contentEncoding, buf).buf
    ELSE buf

(***************************************************************************)
(* Headers: a function from the lower-case header name to its value.       *)
(***************************************************************************)
NoHeaders == [k \in {} |-> ""]

Has(h, k) == k \in DOMAIN h

\* res.setHeader(k, v): header names are case-insensitive.
SetHeader(h, k, v) == (k :> v) @@ h

\* server.js 52-60.
corsHeaders ==
    ("access-control-allow-origin" :> "*") @@
    ("access-control-allow-methods" :> "GET, POST, OPTIONS") @@
    ("access-control-allow-headers" :> "Content-Type, Authorization, X-Requested-With") @@
    ("x-frame-options" :> "SAMEORIGIN") @@
    ("x-content-type-options" :> "nosniff") @@
    ("x-xss-protection" :> "1; mode=block") @@
    ("referrer-policy" :> "strict-origin-when-cross-origin")

\* A bug: stream mode forwarding a chosen few headers only.
StreamHeadersSelective(upstreamHeaders) ==
    [k \in DOMAIN corsHeaders \cup (DOMAIN upstreamHeaders \cap {"content-type", "cache-control"}) |->
        IF k \in DOMAIN upstreamHeaders \cap {"content-type", "cache-control"}
        THEN upstreamHeaders[k] ELSE corsHeaders[k]]
\* server.js 117-127: the fixed set, then every upstream header over it.
StreamHeaders(upstreamHeaders) == upstreamHeaders @@ corsHeaders

\* A bug: transform mode forwarding the upstream headers as stream mode does.
TransformHeadersForwardAll(upstreamHeaders, responseText) ==
    ("content-length" :> ContentLengthOf(responseText)) @@ upstreamHeaders @@ corsHeaders
\* server.js 117-119 and 178-183: the headers of a transformed response.
TransformHeaders(upstreamHeaders, responseText) ==
    ("content-length" :> ContentLengthOf(responseText)) @@
    (IF Has(upstreamHeaders, "cache-control")
     THEN "cache-control" :> upstreamHeaders["cache-control"] ELSE NoHeaders) @@
    ("content-type" :> (IF Has(upstreamHeaders, "content-type")
                        THEN upstreamHeaders["content-type"]
                        ELSE "application/javascript")) @@
    corsHeaders

(***************************************************************************)
(* server.js: the request handler.  A pathname is a sequence of tokens,    *)
(* "/" among them, so that startsWith and replace act on it as on the      *)
(* string.                                                                 *)
(***************************************************************************)
\* server.js 67-68: config.sportradar.baseUrl and widgetId.
baseUrl == <<"http", "s", "://", "widgets", ".sir-sportradar.com">>
widgetId == "984c87dccac74331a2261fd032f80dbf"

Path(segments) == Flatten([i \in 1..Len(segments) |-> <<"/", segments[i]>>])

\* /proxy/sportradar/match.lmtPlus
WidgetPath == Path(<<"proxy", "sportradar">>) \o <<"/", "match.", "lmtPlus">>

\* The pathnames requests are drawn from: every route of the handler, and
\* one that matches none.
Pathnames ==
    { <<"/">>, Path(<<"demo">>), Path(<<"health">>), Path(<<"api">>),
      Path(<<"loader", "theme.css">>), Path(<<"loader", "preview.html">>),
      WidgetPath,
      Path(<<widgetId, "licensing">>), Path(<<"translations", "en">>),
      Path(<<"api", "ws-fn", "feed">>), Path(<<"api", "lt-fn", "feed">>),
      Path(<<"proxy", "sportradar", "assets", "a.js">>),
      Path(<<"assets", "a.js">>), Path(<<"js", "a.js">>), Path(<<"css", "a.css">>),
      Path(<<"nope">>) }

Searches == { <<>>, <<"?", "matchId", "=", "123">> }

\* The inbound requests: GET of every pathname; GET with a query of a
\* proxied route of each mode; OPTIONS and POST of a proxied route and of
\* no route; OPTIONS of the widget route.
Requests ==
    [method : {"GET"}, pathname : Pathnames, search : {<<>>}]
    \cup [method : {"GET"},
          pathname : {WidgetPath, Path(<<"api", "lt-fn", "feed">>)},
          search : Searches \ {<<>>}]
    \cup [method : {"OPTIONS", "POST"},
          pathname : {Path(<<widgetId, "licensing">>), Path(<<"nope">>)},
          search : {<<>>}]
    \cup [method : {"OPTIONS"}, pathname : {WidgetPath}, search : {<<>>}]

\* The files the static routes read.
StaticFiles == {"demo.html", "theme.css", "preview.html"}

Json(type, fields) == [z |-> "none", bytes |-> <<"json", type>> \o fields]

Respond(status, headers, body) ==
    [kind |-> "respond", status |-> status, headers |-> headers, body |-> body,
     targetUrl |-> <<>>, rewriteWidgetScript |-> FALSE]

Proxy(targetUrl, rewrite) ==
    [kind |-> "proxy", status |-> 0, headers |-> NoHeaders, body |-> Raw(<<>>),
     targetUrl |-> targetUrl, rewriteWidgetScript |-> rewrite]

Throw ==
    [kind |-> "throw", status |-> 0, headers |-> NoHeaders, body |-> Raw(<<>>),
     targetUrl |-> <<>>, rewriteWidgetScript |-> FALSE]

\* A bug: the static routes read their file outside any try.
RouteStaticUnguarded(r, readable) ==
    IF r.method = "OPTIONS" THEN Respond(200, corsHeaders, Raw(<<>>))
    ELSE IF r.pathname \in {<<"/">>, Path(<<"demo">>)}
    THEN IF "demo.html" \in readable
         THEN Respond(200, ("content-type" :> "text/html") @@ corsHeaders,
                      Raw(<<"demo.html">>))
         ELSE Throw
    ELSE IF r.pathname = Path(<<"loader", "theme.css">>) /\ "theme.css" \notin readable
    THEN Throw
    ELSE IF r.pathname = Path(<<"loader", "preview.html">>) /\ "preview.html" \notin readable
    THEN Throw
    ELSE Respond(404, ("content-type" :> "application/json") @@ corsHeaders,
                 Json("Not Found", <<"Route", r.method>> \o r.pathname))

\* A bug: the preflight is answered after the routes are tried.
RoutePreflightLast(r, readable) ==
    IF StartsWith(r.pathname, Path(<<"proxy", "sportradar">>) \o <<"/", "match.">>)
    THEN Proxy(baseUrl \o Path(<<widgetId, "widgetloader">>) \o r.search, TRUE)
    ELSE IF r.method = "OPTIONS" THEN Respond(200, corsHeaders, Raw(<<>>))
    ELSE Respond(404, ("content-type" :> "application/json") @@ corsHeaders,
                 Json("Not Found", <<"Route", r.method>> \o r.pathname))

\* server.js 200-355: what the handler does with request r when the files
\* of `readable` can be read: answer itself, call proxyRequest, or throw.
Route(r, readable) ==
    LET pathname == r.pathname
        html == ("content-type" :> "text/html") @@ corsHeaders
        json == ("content-type" :> "application/json") @@ corsHeaders
    IN
    IF r.method = "OPTIONS" THEN Respond(200, corsHeaders, Raw(<<>>))
    ELSE IF pathname = Path(<<"health">>)
    THEN Respond(200, json, Json("health", <<>>))
    ELSE IF pathname \in {<<"/">>, Path(<<"demo">>)} /\ "demo.html" \in readable
    THEN Respond(200, html, Raw(<<"demo.html">>))
    ELSE IF pathname = Path(<<"loader", "theme.css">>) /\ "theme.css" \in readable
    THEN Respond(200, ("content-length" :> ByteLength(Raw(<<"theme.css">>))) @@
                      ("content-type" :> "text/css") @@ corsHeaders,
                 Raw(<<"theme.css">>))
    ELSE IF pathname \in {Path(<<"loader", "preview.html">>), Path(<<"loader", "preview">>)}
            /\ "preview.html" \in readable
    THEN Respond(200, html, Raw(<<"preview.html">>))
    ELSE IF pathname = Path(<<"api">>)
    THEN Respond(200, json, Json("api", <<>>))
    ELSE IF StartsWith(pathname, Path(<<"proxy", "sportradar">>) \o <<"/", "match.">>)
    THEN Proxy(baseUrl \o Path(<<widgetId, "widgetloader">>) \o r.search, TRUE)
    ELSE IF pathname = Path(<<widgetId, "licensing">>)
    THEN Proxy(baseUrl \o pathname, FALSE)
    ELSE IF StartsWith(pathname, Path(<<"translations">>) \o <<"/">>)
    THEN Proxy(baseUrl \o pathname, FALSE)
    ELSE IF \/ StartsWith(pathname, Path(<<"api", "ws-fn">>) \o <<"/">>)
            \/ StartsWith(pathname, Path(<<"api", "lt-fn">>) \o <<"/">>)
    THEN LET apiType == IF StartsWith(pathname, Path(<<"api", "ws-fn">>) \o <<"/">>)
                        THEN "ws-fn" ELSE "lt-fn"
             apiPath == ReplaceFirst(pathname, Path(<<"api", apiType>>) \o <<"/">>, <<>>)
         IN Proxy(<<"http", "s", "://", apiType, ".sir-sportradar.com", "/">>
                    \o apiPath \o r.search, FALSE)
    ELSE IF StartsWith(pathname, Path(<<"proxy", "sportradar">>) \o <<"/">>)
    THEN Throw   \* SPORTRADAR_BASE is not defined: a ReferenceError
    ELSE IF \/ StartsWith(pathname, Path(<<"assets">>) \o <<"/">>)
            \/ StartsWith(pathname, Path(<<"js">>) \o <<"/">>)
            \/ StartsWith(pathname, Path(<<"css">>) \o <<"/">>)
    THEN Proxy(baseUrl \o pathname, FALSE)
    ELSE Respond(404, json, Json("Not Found", <<"Route", r.method>> \o pathname))

(***************************************************************************)
(* The upstream responses proxyRequest is tried on.                        *)
(***************************************************************************)
\* The chunks of the bodies of the widget loader: the strings the rules
\* look for, whole and cut in two after other text, and the replacement.
TransformSegments ==
    { HostLt, HostWs, LmtFieldRule.pat, ProxyLt,
      <<"e-acute", "http", "s">>, <<"://", "lt-fn", ".sir-sportradar.com">> }

\* The chunks of the bodies that are streamed.
StreamSegments == { HostLt, <<"x">>, <<"0xFF">> }

SeqsUpTo(S, n) == UNION { [1..k -> S] : k \in 0..n }

Statuses == {200, 404, 503}

\* The upstream bodies: the chunks, and what they are compressed with.
UpstreamBodies(rewrite) ==
    { b \in [z : {"none"} \cup Zlib,
             chunks : SeqsUpTo(IF rewrite THEN TransformSegments ELSE StreamSegments,
                               MaxChunks)] :
        b.chunks = <<>> => b.z = "none" }

\* Buffer.concat of the chunks of an upstream body.
Concat(z, chunks) == [z |-> z, bytes |-> Flatten(chunks)]

\* Stream mode does not look into the body: one compression stands for all.
StreamBodies == { b \in UpstreamBodies(FALSE) : b.z \in {"none", "gzip"} }
TransformBodies == UpstreamBodies(TRUE)

\* What an upstream body compressed with z is declared as: the encoding it
\* has, or none; a body that is not compressed may be declared gzip
\* (invalid) or zstd (unknown to the proxy).  "none": no header.
DeclaredEncodings(z) == {"none"} \cup (IF z = "none" THEN {"gzip", "zstd"} ELSE {z})

\* An upstream response: status st, body b, declared encoding ce, and the
\* headers content-type, cache-control, content-length present or not.  A
\* content-length is the length of the body on the wire.
UpstreamResponse(st, b, ce, ct, cc, cl) ==
    [statusCode |-> st,
     headers |->
        (IF ct THEN "content-type" :> "application/javascript" ELSE NoHeaders) @@
        (IF cc THEN "cache-control" :> "max-age=60" ELSE NoHeaders) @@
        (IF cl THEN "content-length" :> ByteLength(Concat(b.z, b.chunks)) ELSE NoHeaders) @@
        (IF ce # "none" THEN "content-encoding" :> ce ELSE NoHeaders),
     z |-> b.z,
     chunks |-> b.chunks]

(***************************************************************************)
(* server.js: the state machine of one request.                            *)
(***************************************************************************)
NoReq == [method |-> "", pathname |-> <<>>, search |-> <<>>]
NoCall == [targetUrl |-> <<>>, method |-> "", rewriteWidgetScript |-> FALSE]
NoUp == [statusCode |-> 0, headers |-> NoHeaders, z |-> "none", chunks |-> <<>>]
NoRes == [status |-> 0, headers |-> NoHeaders, body |-> Raw(<<>>), ended |-> FALSE]

ServerInit ==
    /\ phase = "idle"
    /\ req = NoReq
    /\ call = NoCall
    /\ up = NoUp
    /\ got = 0
    /\ data = Raw(<<>>)
    /\ res = NoRes

\* server.js 200-355: the handler runs on an inbound request.
HandleRequest(r, readable) ==
    /\ phase = "idle"
    /\ req' = r
    /\ LET route == Route(r, readable) IN
       /\ phase' = CASE route.kind = "respond" -> "done"
                     [] route.kind = "proxy" -> "connecting"
                     [] OTHER -> "crashed"
       /\ call' = IF route.kind = "proxy"
                  THEN [targetUrl |-> route.targetUrl, method |-> r.method,
                        rewriteWidgetScript |-> route.rewriteWidgetScript]
                  ELSE NoCall
       /\ res' = IF route.kind = "respond"
                 THEN [status |-> route.status, headers |-> route.headers,
                       body |-> route.body, ended |-> TRUE]
                 ELSE NoRes
    /\ UNCHANGED <<up, got, data>>
    /\ UNCHANGED cacheVars

\* server.js 108-139: the upstream answers; headers and status go out in
\* stream mode, nothing yet in transform mode.
OnResponse(u) ==
    /\ phase = "connecting"
    /\ up' = u
    /\ got' = 0
    /\ IF ~call.rewriteWidgetScript
       THEN /\ res' = [status |-> u.statusCode, headers |-> StreamHeaders(u.headers),
                       body |-> Concat(u.z, <<>>), ended |-> FALSE]
            /\ phase' = "streaming"
            /\ data' = data
       ELSE /\ res' = [res EXCEPT !.headers = corsHeaders]
            /\ phase' = "buffering"
            /\ data' = Concat(u.z, <<>>)
    /\ UNCHANGED <<req, call>>
    /\ UNCHANGED cacheVars

\* server.js 131 (pipe) and 139 (the 'data' listener): one more chunk.
OnData ==
    /\ phase \in {"streaming", "buffering"}
    /\ got < Len(up.chunks)
    /\ got' = got + 1
    /\ IF phase = "streaming"
       THEN /\ res' = [res EXCEPT !.body.bytes = @ \o up.chunks[got + 1]]
            /\ data' = data
       ELSE /\ data' = [data EXCEPT !.bytes = @ \o up.chunks[got + 1]]
            /\ res' = res
    /\ UNCHANGED <<phase, req, call, up>>
    /\ UNCHANGED cacheVars

\* A bug: an upstream status of 500 or above answered as a proxy error.
TransformedResponseBadGateway(upstream, buffered) ==
    LET contentEncoding == IF Has(upstream.headers, "content-encoding")
                           THEN upstream.headers["content-encoding"] ELSE "none"
        finalData == DecodeBody(contentEncoding, buffered)
        responseText == RewriteWidgetScript(BufferToString(finalData))
    IN [status |-> IF upstream.statusCode >= 500 THEN 502 ELSE upstream.statusCode,
        headers |-> TransformHeaders(upstream.headers, responseText),
        body |-> BufferFrom(responseText),
        ended |-> TRUE]

\* server.js 141-188: the transformed response, from the whole body.
TransformedResponse(upstream, buffered) ==
    LET contentEncoding == IF Has(upstream.headers, "content-encoding")
                           THEN upstream.headers["content-encoding"] ELSE "none"
        finalData == DecodeBody(contentEncoding, buffered)
        responseText == RewriteWidgetScript(BufferToString(finalData))
    IN [status |-> upstream.statusCode,
        headers |-> TransformHeaders(upstream.headers, responseText),
        body |-> BufferFrom(responseText),
        ended |-> TRUE]

\* server.js 131 (pipe ends the response) and 141-188 (the 'end' listener).
OnEnd ==
    /\ phase \in {"streaming", "buffering"}
    /\ got = Len(up.chunks)
    /\ res' = IF phase = "streaming"
              THEN [res EXCEPT !.ended = TRUE]
              ELSE TransformedResponse(up, data)
    /\ phase' = "done"
    /\ UNCHANGED <<req, call, up, got, data>>
    /\ UNCHANGED cacheVars

\* server.js 191-195: the 'error' listener of the upstream request, when
\* the request fails before any response or the connection fails in the
\* middle of the body.  In stream mode the head is out by then: writeHead
\* throws in the listener, nothing catches it and the process is gone.
\* In transform mode the buffered part of the body is dropped.
OnError ==
    /\ phase \in {"connecting", "buffering", "streaming"}
    /\ IF phase = "streaming"
       THEN /\ res' = NoRes
            /\ phase' = "crashed"
       ELSE /\ res' = [status |-> 500, headers |-> corsHeaders @@ res.headers,
                       body |-> Json("Proxy Error", <<"err.message">>), ended |-> TRUE]
            /\ phase' = IF phase = "connecting" THEN "done" ELSE "failed"
    /\ up' = IF phase = "connecting" THEN up ELSE NoUp
    /\ got' = 0
    /\ data' = Raw(<<>>)
    /\ UNCHANGED <<req, call>>
    /\ UNCHANGED cacheVars

\* The upstream falls silent: it never answers, or sends no more of the
\* body.  proxyRequest sets no timeout (server.js 92-108) and has no
\* listener but 'data', 'end' and the request's 'error': nothing follows.
Stall ==
    /\ phase \in {"connecting", "buffering", "streaming"}
    /\ phase' = "stalled"
    /\ up' = [up EXCEPT !.chunks = SubSeq(up.chunks, 1, got)]
    /\ UNCHANGED <<req, call, got, data, res>>
    /\ UNCHANGED cacheVars

\* server.js 131: the client disconnects while the body is piped.  pipe
\* unpipes the closed response and the upstream response is left paused:
\* nothing destroys it or the upstream request, and what is left of the
\* body is not read.
ClientClose ==
    /\ phase = "streaming"
    /\ phase' = "unpiped"
    /\ up' = [up EXCEPT !.chunks = SubSeq(up.chunks, 1, got)]
    /\ UNCHANGED <<req, call, got, data, res>>
    /\ UNCHANGED cacheVars

\* The request is over; the server takes the next one.
NextRequest ==
    /\ phase \in {"done", "failed", "unpiped"}
    /\ phase' = "idle"
    /\ req' = NoReq
    /\ call' = NoCall
    /\ up' = NoUp
    /\ got' = 0
    /\ data' = Raw(<<>>)
    /\ res' = NoRes
    /\ UNCHANGED cacheVars

\* An inbound request arrives.
Request ==
    /\ phase = "idle"
    /\ \E r \in Requests, readable \in SUBSET StaticFiles : HandleRequest(r, readable)

\* The upstream answers the request proxyRequest made.
Response ==
    /\ phase = "connecting"
    /\ \E b \in IF call.rewriteWidgetScript THEN TransformBodies ELSE StreamBodies,
          st \in Statuses, ct \in BOOLEAN, cc \in BOOLEAN, cl \in BOOLEAN :
         \E ce \in DeclaredEncodings(b.z) :
             OnResponse(UpstreamResponse(st, b, ce, ct, cc, cl))

Empty == [k \in {} |-> 0]

(***************************************************************************)
(* ProxyService (part_002) behind createProxyRouter (routes/health.js).    *)
(***************************************************************************)
\* The route handlers that can await the upstream at once.
Handlers == {"h1", "h2"}

\* The configuration: one provider with two widget types, per-resource
\* TTLs in seconds (0: none configured), the default TTL and the key limit.
\* scripts is the TTL of the provider's widget loaders, configured or not.
Config(scripts) ==
    [providers |->
        ("sportradar" :>
            [baseUrl |-> <<"https://widgets.sir-sportradar.com">>,
             widgetId |-> "W",
             widgetTypes |->
                ("match.lmtPlus" :> [path |-> <<"/", "{widgetId}", "/widgetloader">>]) @@
                ("match.preview" :> [path |-> <<"/", "{widgetId}", "/widgetloader">>]),
             headers |-> ("user-agent" :> "KakBet-Widget-Proxy/1.0") @@
                         ("accept" :> "*/*") @@
                         ("accept-encoding" :> "gzip, deflate, br"),
             cache |-> [scripts |-> scripts, assets |-> 2, chunks |-> 0]]),
     cache |-> [defaultTtl |-> 2, maxKeys |-> 2]]

Configs == { Config(scripts) : scripts \in {0, 1} }

\* The headers the upstream answers with: content-type, cache-control, an
\* etag and a content-encoding (gzip, which the HTTP client decodes, or
\* zstd, which it does not).
Sites == [encoding : {"gzip", "zstd"}]

SiteHeaders(s) ==
    ("content-encoding" :> s.encoding) @@ ("content-type" :> "text/javascript") @@
    ("cache-control" :> "max-age=60") @@ ("etag" :> "v1")

\* Query parameters, as req.query holds them: the pairs in the order of the
\* query string.
M1 == <<"matchId", "1">>
M2 == <<"matchId", "2">>
L == <<"lang", "en">>

\* The requests of the cache-backed routes: widget requests that differ
\* in one value or in the order of the parameters, asset requests that
\* differ in one value, and requests of no provider and of no widget type.
CacheRequests ==
    [route : {"widget"}, provider : {"sportradar"}, resource : {"match.lmtPlus"},
     query : {<<M1, L>>, <<M2, L>>, <<L, M1>>}]
    \cup [route : {"widget"}, provider : {"acme"}, resource : {"match.lmtPlus"},
          query : {<<M1, L>>}]
    \cup [route : {"widget"}, provider : {"sportradar"}, resource : {"match.nope"},
          query : {<<M1, L>>}]
    \cup [route : {"asset"}, provider : {"sportradar"}, resource : {"a.js"},
          query : {<<M1>>, <<M2>>}]
    \cup [route : {"asset"}, provider : {"acme"}, resource : {"a.js"}, query : {<<M1>>}]

RECURSIVE JsonMembers(_)
JsonMembers(queryParams) ==
    IF queryParams = <<>> THEN <<>>
    ELSE <<Q, queryParams[1][1], Q, ":", Q, queryParams[1][2], Q>>
         \o (IF Len(queryParams) > 1 THEN <<",">> ELSE <<>>)
         \o JsonMembers(Tail(queryParams))

\* JSON.stringify of an object of strings: the members in the object's order.
JsonStringify(queryParams) == <<"{">> \o JsonMembers(queryParams) \o <<"}">>

\* routes/health.js 125: the asset path the router hands to proxyAsset.
AssetPath(r) == <<"/assets/", r.resource>>

\* part_002 50 and 125: cacheKey.
CacheKey(r) ==
    IF r.route = "widget"
    THEN <<"widget", ":", r.provider, ":", r.resource, ":">> \o JsonStringify(r.query)
    ELSE <<"asset", ":", r.provider, ":">> \o AssetPath(r)

\* A bug: the widget type is looked up only after the cache.
ValidateProviderOnly(cfg, r) ==
    IF r.provider \notin DOMAIN cfg.providers
    THEN <<"Provider '", r.provider, "' not found">>
    ELSE <<>>
\* part_002 34-43 and 115-119: the error the call throws at once, or none.
Validate(cfg, r) ==
    IF r.provider \notin DOMAIN cfg.providers
    THEN <<"Provider '", r.provider, "' not found">>
    ELSE IF r.route = "widget" /\ r.resource \notin DOMAIN cfg.providers[r.provider].widgetTypes
    THEN <<"Widget type '", r.resource, "' not found for provider '", r.provider, "'">>
    ELSE <<>>

\* part_002 46-47 and 122: targetUrl.
TargetUrl(cfg, r) ==
    LET providerConfig == cfg.providers[r.provider] IN
    IF r.route = "widget"
    THEN providerConfig.baseUrl
         \o ReplaceFirst(providerConfig.widgetTypes[r.resource].path,
                         <<"{widgetId}">>, <<providerConfig.widgetId>>)
    ELSE providerConfig.baseUrl \o AssetPath(r)

\* part_002 74-78 and 152-155: what is asked of the upstream; the widget
\* call passes the query parameters, the asset call none.
UpstreamRequest(cfg, r) ==
    [url |-> TargetUrl(cfg, r), params |-> IF r.route = "widget" THEN r.query ELSE <<>>]

\* The upstream's content for a request: told by the URL and the parameters.
ContentOf(request) == <<"content of">> \o request.url \o JsonStringify(request.params)

\* The HTTP client (axios) hands over the headers of the response without
\* the content-encoding of a body it has decoded.
ClientHeaders(upstreamHeaders) ==
    IF Has(upstreamHeaders, "content-encoding")
       /\ upstreamHeaders["content-encoding"] \in {"gzip", "deflate", "br", "compress"}
    THEN [k \in DOMAIN upstreamHeaders \ {"content-encoding"} |-> upstreamHeaders[k]]
    ELSE upstreamHeaders

\* part_002 191-219.
buildResponseHeaders(originalHeaders, resourceType) ==
    (IF Has(originalHeaders, "cache-control")
     THEN "cache-control" :> originalHeaders["cache-control"]
     ELSE "cache-control" :> (IF resourceType = "script" THEN "public, max-age=300"
                              ELSE "public, max-age=3600")) @@
    (IF Has(originalHeaders, "content-encoding")
     THEN "content-encoding" :> originalHeaders["content-encoding"] ELSE NoHeaders) @@
    (IF Has(originalHeaders, "content-type")
     THEN "content-type" :> originalHeaders["content-type"] ELSE NoHeaders) @@
    ("access-control-allow-origin" :> "*") @@
    ("access-control-allow-methods" :> "GET, POST, OPTIONS") @@
    ("access-control-allow-headers" :> "Content-Type, Authorization, X-Requested-With") @@
    ("x-frame-options" :> "SAMEORIGIN") @@
    ("x-content-type-options" :> "nosniff")

\* part_002 249-267, for the extensions of the asset paths requested.
getContentType(r) == "application/javascript"

\* part_002 81-86 and 158-163: result.
ProxyResult(r, status, responseHeaders, responseData) ==
    [status |-> status,
     data |-> responseData,
     contentType |-> IF Has(responseHeaders, "content-type")
                     THEN responseHeaders["content-type"]
                     ELSE IF r.route = "widget" THEN "application/javascript"
                          ELSE getContentType(r),
     headers |-> buildResponseHeaders(responseHeaders,
                                      IF r.route = "widget" THEN "script" ELSE "asset")]

\* String.prototype.split('.') of the file names asset requests are drawn
\* from.
Split(name) ==
    CASE name = "a.js" -> <<"a", "js">>
      [] name = "chunk.1.js" -> <<"chunk", "1", "js">>
      [] name = "chunk.1.css" -> <<"chunk", "1", "css">>
      [] name = "logo.png" -> <<"logo", "png">>
      [] OTHER -> <<name>>

\* assetPath.includes('chunk.'), the path being /assets/ and a file name.
IncludesChunk(assetPath) ==
    LET pieces == Split(assetPath[Len(assetPath)])
    IN \E i \in 1..(Len(pieces) - 1) : pieces[i] = "chunk"

\* part_002 272-288; x || y is y when x is 0 or not there.
getAssetCacheTtl(providerConfig, assetPath) ==
    LET pieces == Split(assetPath[Len(assetPath)])
        ext == pieces[Len(pieces)]
        ttls == providerConfig.cache
    IN IF ext = "js"
       THEN IF IncludesChunk(assetPath)
            THEN IF ttls.chunks # 0 THEN ttls.chunks ELSE 1800
            ELSE IF ttls.assets # 0 THEN ttls.assets ELSE 3600
       ELSE IF ext = "css"
       THEN IF ttls.assets # 0 THEN ttls.assets ELSE 3600
       ELSE IF ttls.assets # 0 THEN ttls.assets ELSE 3600

\* part_002 89 and 166: cacheTtl.
CacheTtl(cfg, r) ==
    LET providerConfig == cfg.providers[r.provider] IN
    IF r.route = "widget"
    THEN IF providerConfig.cache.scripts # 0 THEN providerConfig.cache.scripts
         ELSE cfg.cache.defaultTtl
    ELSE getAssetCacheTtl(providerConfig, AssetPath(r))

(***************************************************************************)
(* The cache (node-cache, part_002 11-15).  An entry is the value v and    *)
(* the time t it expires at (0: never); ins, ttl and by record when, with  *)
(* what TTL and for which request it was stored.                           *)
(***************************************************************************)
\* A bug: an entry taken for expired at the very second it expires.
ExpiredInclusive(e, time) == e.t # 0 /\ e.t <= time
\* A bug: no expiry on lookup, the periodic sweep relied on.
ExpiredNever(e, time) == FALSE
\* node-cache _check: the entry is past its time.
Expired(e, time) == e.t # 0 /\ e.t < time

Without(c, key) == [k \in DOMAIN c \ {key} |-> c[k]]

\* A bug: a hit renews the entry's time to live.
CacheGetSliding(c, key, time) ==
    IF key \in DOMAIN c /\ ~(c[key].t # 0 /\ c[key].t < time)
    THEN [hit |-> TRUE, entry |-> c[key],
          cache |-> [c EXCEPT ![key].t = time + c[key].ttl]]
    ELSE [hit |-> FALSE, entry |-> Empty, cache |-> [k \in DOMAIN c \ {key} |-> c[k]]]
\* part_002 53 and 128: this.cache.get(cacheKey); an expired entry is
\* deleted by the lookup that finds it.
CacheGet(c, key, time) ==
    IF key \in DOMAIN c /\ ~Expired(c[key], time)
    THEN [hit |-> TRUE, entry |-> c[key], cache |-> c]
    ELSE [hit |-> FALSE, entry |-> Empty, cache |-> Without(c, key)]

\* part_002 90 and 167: this.cache.set(cacheKey, result, cacheTtl), which
\* throws when the cache holds maxKeys keys.
CacheFull(c, cfg) == Cardinality(DOMAIN c) >= cfg.cache.maxKeys

CacheSet(c, key, value, ttl, time, r) ==
    (key :> [v |-> value, t |-> IF ttl = 0 THEN 0 ELSE time + ttl,
             ins |-> time, ttl |-> ttl, by |-> r]) @@ c

\* Whether a request for key finds an entry, and of which age.
Found(c, key, time) ==
    IF key \notin DOMAIN c THEN "absent"
    ELSE IF time - c[key].ins <= c[key].ttl THEN "live" ELSE "expired"

\* Two requests for one resource whose queries hold the same parameters.
SameParameters(r1, r2) ==
    /\ r1.route = r2.route /\ r1.provider = r2.provider /\ r1.resource = r2.resource
    /\ {r1.query[i] : i \in DOMAIN r1.query} = {r2.query[i] : i \in DOMAIN r2.query}

\* Two requests for one resource that differ in the value of one parameter.
DifferInOneValue(r1, r2) ==
    /\ r1.route = r2.route /\ r1.provider = r2.provider /\ r1.resource = r2.resource
    /\ Len(r1.query) = Len(r2.query)
    /\ \A i \in DOMAIN r1.query : r1.query[i][1] = r2.query[i][1]
    /\ Cardinality({i \in DOMAIN r1.query : r1.query[i][2] # r2.query[i][2]}) = 1

\* The cache-backed routes are not part of server.js: nothing of them moves.
CacheIdle ==
    /\ config = Empty
    /\ site = Empty
    /\ cache = Empty
    /\ now = 0
    /\ calls = Empty
    /\ log = Empty

Init == ServerInit /\ CacheIdle

Next ==
    \/ Request \/ Response \/ OnData \/ OnEnd \/ OnError
    \/ Stall \/ ClientClose \/ NextRequest

Spec == Init /\ [][Next]_vars

\* The upstream answers 200 with a body of chunks of one kind, not
\* compressed: the responses the progress of a request is followed on.
PlainResponse ==
    /\ phase = "connecting"
    /\ \E chunks \in SeqsUpTo({<<"x">>}, MaxChunks) :
          OnResponse(UpstreamResponse(200, [z |-> "none", chunks |-> chunks],
                                      "none", TRUE, FALSE, FALSE))

FairNext ==
    \/ Request \/ PlainResponse \/ OnData \/ OnEnd \/ OnError
    \/ Stall \/ ClientClose \/ NextRequest

\* The event loop runs a listener once its event has occurred, and an
\* upstream that has not fallen silent goes on: it answers, sends the next
\* chunk, ends the body.
FairSpec ==
    /\ Init /\ [][FairNext]_vars
    /\ WF_vars(PlainResponse) /\ WF_vars(OnData) /\ WF_vars(OnEnd)

\* The upstream answers 200 with a script of the strings the four rules
\* look for: the two fields, the bare hosts, a field of one feed with the
\* host of the other, a host cut in two, text already rewritten.
RuleSegments ==
    { LmtFieldRule.pat, CardsFieldRule.pat, HostLt, HostWs,
      KeyCards \o HostLt \o <<Q>>, ProxyLt,
      <<"http", "s">>, <<"://", "ws-fn", ".sir-sportradar.com">> }

RuleResponse ==
    /\ phase = "connecting"
    /\ \E chunks \in SeqsUpTo(RuleSegments, MaxChunks) :
          OnResponse(UpstreamResponse(200, [z |-> "none", chunks |-> chunks],
                                      "none", TRUE, FALSE, FALSE))

RuleNext ==
    \/ Request \/ RuleResponse \/ OnData \/ OnEnd \/ OnError
    \/ Stall \/ ClientClose \/ NextRequest

RuleSpec == Init /\ [][RuleNext]_vars

(***************************************************************************)
(* A feed URL in the widget script and the request the browser makes of    *)
(* its rewritten form.                                                     *)
(***************************************************************************)
\* Paths and queries of feed URLs: plain ones, a path that repeats a proxy
\* prefix, a query that names a path or holds the URL of a feed host.
FeedPaths ==
    { <<>>, <<"feed">>, <<"feed", "/", "1">>,
      <<"api", "/", "lt-fn", "/", "x">>, <<"api", "/", "ws-fn", "/", "x">> }

FeedQueries ==
    { <<>>, <<"?", "matchId", "=", "123">>,
      <<"?", "p", "=", "/", "api", "/", "ws-fn", "/">>,
      <<"?", "u", "=">> \o HostWs, <<"?", "u", "=">> \o HostLt \o <<"/", "feed">> }

\* https://{name}.sir-sportradar.com/P?Q
FeedUrls ==
    { <<"http", "s", "://", name, ".sir-sportradar.com", "/">> \o P \o query :
        name \in {"lt-fn", "ws-fn"}, P \in FeedPaths, query \in FeedQueries }

\* First position of token tok in text, Len(text) + 1 when there is none.
IndexOf(text, tok) ==
    IF \E i \in DOMAIN text : text[i] = tok
    THEN CHOOSE i \in DOMAIN text : text[i] = tok /\ \A j \in 1..(i - 1) : text[j] # tok
    ELSE Len(text) + 1

\* server.js 201-202: the GET request of a URL of this server as the
\* handler sees it: url.parse splits req.url at the first '?'.
RequestOf(href) ==
    IF StartsWith(href, <<"http", "://", "localhost:3001/api/">>)
    THEN LET rest == SubSeq(href, 4, Len(href))
             q == IndexOf(rest, "?")
         IN [method |-> "GET",
             pathname |-> <<"/", "api", "/">> \o SubSeq(rest, 1, q - 1),
             search |-> SubSeq(rest, q, Len(rest))]
    ELSE [method |-> "GET", pathname |-> <<"/">>, search |-> <<>>]

\* server.js 294-302 and 108-188: the widget loader has been served, the
\* upstream's script holding the feed URL href; the request is over.
ServeScript(href) ==
    /\ phase = "idle"
    /\ up = NoUp
    /\ up' = UpstreamResponse(200, [z |-> "none", chunks |-> <<href>>],
                              "none", TRUE, FALSE, FALSE)
    /\ got' = 1
    /\ data' = Raw(href)
    /\ res' = TransformedResponse(up', data')
    /\ UNCHANGED <<phase, req, call>>
    /\ UNCHANGED cacheVars

\* server.js 200-355: the browser requests the URL the served script holds.
FollowUrl ==
    /\ phase = "idle"
    /\ up # NoUp
    /\ HandleRequest(RequestOf(res.body.bytes), {})

Embed == \E href \in FeedUrls : ServeScript(href)

FeedNext == Embed \/ FollowUrl \/ OnError \/ NextRequest

FeedSpec == Init /\ [][FeedNext]_vars

\* The upstream answers with content that is no text: an image or bytes of
\* no declared kind, holding a byte that is no UTF-8 or, by chance, the
\* bytes of a feed host.
BinarySegments == { <<"0xFF">>, <<"PNG">>, HostLt }

BinaryResponse ==
    /\ phase = "connecting"
    /\ \E chunks \in SeqsUpTo(BinarySegments, MaxChunks) \ {<<>>},
          z \in {"none", "gzip"},
          type \in {"image/png", "application/octet-stream"} :
         LET u == UpstreamResponse(200, [z |-> z, chunks |-> chunks],
                                   z, FALSE, FALSE, TRUE)
         IN OnResponse([u EXCEPT !.headers = ("content-type" :> type) @@ @])

BinaryNext ==
    \/ Request \/ BinaryResponse \/ OnData \/ OnEnd \/ OnError
    \/ Stall \/ ClientClose \/ NextRequest

BinarySpec == Init /\ [][BinaryNext]_vars

(***************************************************************************)
(* The cache-backed routes: a route handler validates, looks the key up    *)
(* and either answers from the cache or awaits the upstream; when the      *)
(* upstream has answered it stores the result and answers.                 *)
(***************************************************************************)
\* routes/health.js 96-103 and 134-141: the response made of a result.
\* found, ins, ttl and by record what the lookup met.
ResultAnswer(kind, r, result, found, e) ==
    [kind |-> kind, req |-> r, status |-> result.status,
     headers |-> ("content-type" :> result.contentType) @@ result.headers,
     data |-> result.data, json |-> Empty,
     found |-> found, ins |-> e.ins, ttl |-> e.ttl, by |-> e.by]

\* routes/health.js 105-114 and 143-151: the response made of an error
\* (status: error.status, 0 when the error has none); the body is the
\* JSON of the message and of the provider and resource asked for.
ErrorAnswer(r, status, message) ==
    [kind |-> "error", req |-> r, status |-> IF status # 0 THEN status ELSE 500,
     headers |-> "content-type" :> "application/json",
     data |-> <<>>,
     json |-> IF r.route = "widget"
              THEN [error |-> <<"Proxy Error">>, message |-> message,
                    provider |-> <<r.provider>>, widgetType |-> <<r.resource>>]
              ELSE [error |-> <<"Asset Proxy Error">>, message |-> message,
                    provider |-> <<r.provider>>, assetPath |-> <<r.resource>>],
     found |-> "absent", ins |-> 0, ttl |-> 0, by |-> r]

\* part_002 100-108 and 177-185: the error of the catch block.
FetchError(r, message) ==
    (IF r.route = "widget" THEN <<"Failed to fetch widget: ">>
     ELSE <<"Failed to fetch asset: ">>) \o message

\* routes/health.js 77-115 and 118-152 down to the await of the upstream:
\* part_002 33-78 and 114-155.
Start(r) ==
    /\ log = Empty
    /\ BagCardinality(calls) < Cardinality(Handlers)
    /\ LET message == Validate(config, r)
           key == CacheKey(r)
           cached == CacheGet(cache, key, now)
           found == Found(cache, key, now)
       IN IF message # <<>>
          THEN /\ log' = ErrorAnswer(r, 0, message)
               /\ UNCHANGED <<cache, calls>>
          ELSE IF cached.hit
          THEN /\ log' = ResultAnswer("hit", r, cached.entry.v, found, cached.entry)
               /\ cache' = cached.cache
               /\ UNCHANGED calls
          ELSE /\ calls' = calls (+) SetToBag({
                              [req |-> r, key |-> key, found |-> found,
                               twin |-> \E k \in DOMAIN cache :
                                          /\ SameParameters(cache[k].by, r)
                                          /\ Found(cache, k, now) = "live"]})
               /\ cache' = cached.cache
               /\ UNCHANGED log
    /\ UNCHANGED <<config, site, now>>
    /\ UNCHANGED serverVars

\* part_002 74-98 and 152-175, routes/health.js 96-103: the upstream
\* answered with a status below 500; the result is stored and sent, or the
\* store is refused and the error sent.
Complete(h, status) ==
    /\ log = Empty
    /\ BagIn(h, calls)
    /\ LET r == h.req
           responseHeaders == ClientHeaders(SiteHeaders(site))
           result == ProxyResult(r, status, responseHeaders,
                                 ContentOf(UpstreamRequest(config, r)))
           stored == CacheSet(cache, h.key, result, CacheTtl(config, r), now, r)
       IN IF CacheFull(cache, config)
          THEN /\ log' = ErrorAnswer(r, 0,
                             FetchError(r, <<"Cache max keys amount exceeded">>))
               /\ UNCHANGED cache
          ELSE /\ log' = ResultAnswer("fetched", r, result, h.found, stored[h.key])
               /\ cache' = stored
    /\ calls' = calls (-) SetToBag({h})
    /\ UNCHANGED <<config, site, now>>
    /\ UNCHANGED serverVars

\* A bug: the failure is remembered under the key as a result.
FailStoresError(h) ==
    /\ log = Empty
    /\ BagIn(h, calls)
    /\ log' = ErrorAnswer(h.req, 0, FetchError(h.req, <<"upstream">>))
    /\ cache' = CacheSet(cache, h.key,
                         ProxyResult(h.req, 502, NoHeaders, <<"upstream">>),
                         CacheTtl(config, h.req), now, h.req)
    /\ calls' = calls (-) SetToBag({h})
    /\ UNCHANGED <<config, site, now>>
    /\ UNCHANGED serverVars

\* part_002 100-108 and 177-185, routes/health.js 105-114: the upstream did
\* not answer or answered 500 or above.
Fail(h) ==
    /\ log = Empty
    /\ BagIn(h, calls)
    /\ log' = ErrorAnswer(h.req, 0, FetchError(h.req, <<"upstream">>))
    /\ calls' = calls (-) SetToBag({h})
    /\ UNCHANGED <<config, site, cache, now>>
    /\ UNCHANGED serverVars

\* The response is on its way; the handler is over.
Deliver ==
    /\ log # Empty
    /\ log' = Empty
    /\ UNCHANGED <<config, site, cache, now, calls>>
    /\ UNCHANGED serverVars

\* A second passes.
Tick ==
    /\ log = Empty
    /\ now < MaxTime
    /\ now' = now + 1
    /\ UNCHANGED <<config, site, cache, calls, log>>
    /\ UNCHANGED serverVars

\* node-cache _checkData, every checkperiod: expired entries are deleted.
Sweep ==
    /\ log = Empty
    /\ \E k \in DOMAIN cache : Expired(cache[k], now)
    /\ cache' = [k \in {x \in DOMAIN cache : ~Expired(cache[x], now)} |-> cache[k]]
    /\ UNCHANGED <<config, site, now, calls, log>>
    /\ UNCHANGED serverVars

Arrive == \E r \in CacheRequests : Start(r)
Answer == \E h \in BagToSet(calls), status \in {200, 404} : Complete(h, status)
Failure == \E h \in BagToSet(calls) : Fail(h)

\* part_002 7-25: the service as constructed, for a configuration and an
\* upstream.
CacheInit ==
    /\ ServerInit
    /\ config \in Configs
    /\ site \in Sites
    /\ cache = Empty
    /\ now = 0
    /\ calls = Empty
    /\ log = Empty

CacheNext == Arrive \/ Answer \/ Failure \/ Deliver \/ Tick \/ Sweep

CacheSpec == CacheInit /\ [][CacheNext]_vars

(***************************************************************************)
(* The TTL entries are stored with, over the provider's per-resource TTLs  *)
(* configured or not and over asset paths of every kind.                   *)
(***************************************************************************)
\* Configurations with each of the provider's three TTLs configured or not.
TtlConfigs ==
    { [Config(scripts) EXCEPT
          !.providers["sportradar"].cache =
              [scripts |-> scripts, assets |-> assets, chunks |-> chunks]] :
        scripts \in {0, 1}, assets \in {0, 3}, chunks \in {0, 4} }

\* A widget loader and assets: a script, a chunk, a chunked stylesheet, an
\* image.
TtlRequests ==
    [route : {"widget"}, provider : {"sportradar"}, resource : {"match.lmtPlus"},
     query : {<<M1, L>>}]
    \cup [route : {"asset"}, provider : {"sportradar"},
          resource : {"a.js", "chunk.1.js", "chunk.1.css", "logo.png"}, query : {<<M1>>}]

TtlArrive == \E r \in TtlRequests : Start(r)

\* part_002 303-306: clearCache.
clearCache ==
    /\ log = Empty
    /\ cache # Empty
    /\ cache' = Empty
    /\ UNCHANGED <<config, site, now, calls, log>>
    /\ UNCHANGED serverVars

TtlInit ==
    /\ ServerInit
    /\ config \in TtlConfigs
    /\ site \in Sites
    /\ cache = Empty
    /\ now = 0
    /\ calls = Empty
    /\ log = Empty

TtlNext == TtlArrive \/ Answer \/ Deliver \/ clearCache

TtlSpec == TtlInit /\ [][TtlNext]_vars

(***************************************************************************)
(* The upstream request as a function of the inbound request's headers,    *)
(* on the proxyRequest path and on the ProxyService path.                  *)
(***************************************************************************)
OptionalHeader(name, values) == {NoHeaders} \cup { name :> v : v \in values }

\* The headers of inbound requests: each of six present or not.
InboundHeaders ==
    { ua @@ rf @@ ae @@ ck @@ au @@ xc :
        ua \in OptionalHeader("user-agent", {"Browser/1"}),
        rf \in OptionalHeader("referer", {"https://site.example/"}),
        ae \in OptionalHeader("accept-encoding", {"zstd"}),
        ck \in OptionalHeader("cookie", {"sid=1"}),
        au \in OptionalHeader("authorization", {"Bearer t"}),
        xc \in OptionalHeader("x-custom", {"1"}) }

\* req.get(name): undefined ("") when the request has no such header.
Get(headers, name) == IF Has(headers, name) THEN headers[name] ELSE ""

\* routes/health.js 88-92 and 126-130: what the router hands to the service.
RouterHeaders(headers) ==
    [userAgent |-> Get(headers, "user-agent"),
     referer |-> Get(headers, "referer"),
     acceptEncoding |-> Get(headers, "accept-encoding")]

\* part_002 61-69 and 136-144: headers.
ServiceHeaders(providerConfig, requestHeaders) ==
    (IF requestHeaders.acceptEncoding # ""
     THEN "accept-encoding" :> requestHeaders.acceptEncoding ELSE NoHeaders) @@
    ("user-agent" :> IF requestHeaders.userAgent # "" THEN requestHeaders.userAgent
                     ELSE providerConfig.headers["user-agent"]) @@
    ("referer" :> IF requestHeaders.referer # "" THEN requestHeaders.referer
                  ELSE "https://kakbet.com") @@
    providerConfig.headers

\* A bug: the inbound headers are passed on as they are.
UpstreamHeadersForwardAll(providerConfig, headers) == headers @@ providerConfig.headers
\* The headers of the upstream request of the service for inbound headers.
UpstreamHeaders(providerConfig, headers) ==
    ServiceHeaders(providerConfig, RouterHeaders(headers))

\* part_002 74-78 and 152-155: the upstream request of the service.
ServiceFetch(cfg, r, headers) ==
    [url |-> TargetUrl(cfg, r),
     method |-> "GET",
     params |-> UpstreamRequest(cfg, r).params,
     headers |-> UpstreamHeaders(cfg.providers[r.provider], headers)]

\* server.js 92-104: options, for the target of the route of request r.
ProxyOptions(r, headers) ==
    [url |-> Route(r, {}).targetUrl,
     method |-> r.method,
     params |-> <<>>,
     headers |-> ("user-agent" :> "Mozilla/5.0") @@ ("accept" :> "*/*") @@
                 ("accept-encoding" :> "gzip, deflate, br") @@
                 ("referer" :> "https://www.tipx10.com/")]

\* The inbound requests the upstream request is built for: a route of each
\* mode of proxyRequest, and the widget and the asset route of the service.
ProxiedRequests == { r \in Requests : r.method = "GET" /\ r.search # <<>> }
ServedRequests == { r \in CacheRequests : r.provider = "sportradar" /\ r.query[1] = M1
                                          /\ r.resource # "match.nope" }

\* server.js 82-108: proxyRequest builds the upstream request.
BuildProxyRequest(r, headers) ==
    /\ phase = "idle"
    /\ phase' = "built"
    /\ req' = [path |-> "proxyRequest", request |-> r, headers |-> headers]
    /\ call' = ProxyOptions(r, headers)
    /\ UNCHANGED <<up, got, data, res>>
    /\ UNCHANGED cacheVars

\* routes/health.js 77-92, part_002 60-78: the service builds its request.
BuildServiceRequest(r, headers) ==
    /\ phase = "idle"
    /\ phase' = "built"
    /\ req' = [path |-> "ProxyService", request |-> r, headers |-> headers]
    /\ call' = ServiceFetch(config, r, headers)
    /\ UNCHANGED <<up, got, data, res>>
    /\ UNCHANGED cacheVars

\* The next inbound request.
Forget ==
    /\ phase = "built"
    /\ phase' = "idle"
    /\ req' = NoReq
    /\ call' = NoCall
    /\ UNCHANGED <<up, got, data, res>>
    /\ UNCHANGED cacheVars

ViaProxyRequest == \E r \in ProxiedRequests, headers \in InboundHeaders : BuildProxyRequest(r, headers)
ViaService == \E r \in ServedRequests, headers \in InboundHeaders : BuildServiceRequest(r, headers)

HeaderInit ==
    /\ ServerInit
    /\ config \in Configs
    /\ site = Empty /\ cache = Empty /\ now = 0 /\ calls = Empty /\ log = Empty

HeaderNext == ViaProxyRequest \/ ViaService \/ Forget

HeaderSpec == HeaderInit /\ [][HeaderNext]_vars

(***************************************************************************)
(* Claims about proxyRequest (server.js), checked under Spec.              *)
(***************************************************************************)
\* The upstream answered the proxyRequest call of the request under way.
Answered == up.statusCode # 0

StreamDone == phase = "done" /\ Answered /\ ~call.rewriteWidgetScript
TransformDone == phase = "done" /\ Answered /\ call.rewriteWidgetScript

\* C1: in stream mode the client is sent the upstream's bytes, chunk after
\* chunk and in the end all of them, and the upstream's content-length,
\* content-encoding and cache-control, each with the upstream's value.
C1_StreamFidelity ==
    (phase \in {"streaming", "done"} /\ Answered /\ ~call.rewriteWidgetScript) =>
        /\ res.body = Concat(up.z, SubSeq(up.chunks, 1, got))
        /\ phase = "done" => res.body = Concat(up.z, up.chunks)
        /\ res.status = up.statusCode
        /\ \A k \in {"content-length", "content-encoding", "cache-control"} :
               Has(up.headers, k) =>
                   Has(res.headers, k) /\ res.headers[k] = up.headers[k]

\* C1's case: a compressed body of two chunks streamed to the end, the
\* three headers all present upstream.
C1_Witness ==
    /\ StreamDone
    /\ Len(up.chunks) = 2
    /\ up.z = "gzip"
    /\ {"content-length", "content-encoding", "cache-control"} \subseteq DOMAIN up.headers

\* C2: a transformed response has no content-encoding, and its
\* content-length is the number of bytes of the rewritten body.
C2_TransformHeaders ==
    TransformDone =>
        /\ ~Has(res.headers, "content-encoding")
        /\ Has(res.headers, "content-length")
        /\ res.headers["content-length"] = ByteLength(res.body)

\* C2's case: the upstream sent a gzip body declared as such, with a
\* content-length that is not the length of what the client is sent.
C2_Witness ==
    /\ TransformDone
    /\ up.z = "gzip"
    /\ Has(up.headers, "content-encoding")
    /\ Has(up.headers, "content-length")
    /\ up.headers["content-length"] # res.headers["content-length"]
    /\ ByteLength(res.body) # Len(res.body.bytes)

\* The patterns of the four rules.
RulePatterns == {LmtFieldRule.pat, CardsFieldRule.pat, LtHostRule.pat, WsHostRule.pat}

\* C4: the rewrite of a rewritten text changes nothing, and a rewritten
\* text holds no match of any rule.
C4_RewriteIdempotent ==
    TransformDone =>
        /\ RewriteWidgetScript(res.body.bytes) = res.body.bytes
        /\ \A pat \in RulePatterns : Count(res.body.bytes, pat) = 0

\* C4's case: a body the rewrite changed in two places.
C4_Witness ==
    /\ TransformDone
    /\ up.z = "none"
    /\ Count(Flatten(up.chunks), HostLt) = 2
    /\ Count(res.body.bytes, ProxyLt) = 2

\* The upstream body is compressed with the encoding it declares.
WellCompressed ==
    /\ up.z \in Zlib
    /\ Has(up.headers, "content-encoding")
    /\ up.headers["content-encoding"] = up.z

\* C5: of a body compressed as declared, the transformed body has no feed
\* host left, and as many proxy URLs as the text had feed hosts, when the
\* text had no proxy URL.  up.chunks is the text that was compressed.
C5_RoundTrip ==
    (TransformDone /\ WellCompressed) =>
        LET text == Flatten(up.chunks)
            out == res.body.bytes
        IN /\ Count(out, HostLt) = 0
           /\ Count(out, HostWs) = 0
           /\ Count(text, ProxyLt) = 0 => Count(out, ProxyLt) = Count(text, HostLt)
           /\ Count(text, ProxyWs) = 0 => Count(out, ProxyWs) = Count(text, HostWs)

\* C5's case: a brotli body with the lt-fn host twice, once in a field.
C5_Witness ==
    /\ TransformDone /\ WellCompressed
    /\ up.z = "br"
    /\ Count(Flatten(up.chunks), HostLt) = 2
    /\ Count(Flatten(up.chunks), LmtFieldRule.pat) = 1
    /\ Count(res.body.bytes, ProxyLt) = 2

(***************************************************************************)
(* Claims about the cache-backed routes, checked under CacheSpec.          *)
(***************************************************************************)
Sending == log # Empty
Fetching == BagToSet(calls)

\* The names a text mentions.
Mentions(text) == {text[i] : i \in DOMAIN text}

\* C3: the result of the widget route, as stored and as sent, has no
\* content-encoding whatever the upstream declared, and of the upstream's
\* headers only content-type and cache-control.
C3_NoContentEncoding ==
    LET taken(headers) == DOMAIN headers \cap DOMAIN SiteHeaders(site) IN
    /\ \A k \in DOMAIN cache :
          cache[k].by.route = "widget" =>
              taken(cache[k].v.headers) \subseteq {"content-type", "cache-control"}
    /\ (Sending /\ log.kind # "error" /\ log.req.route = "widget") =>
          taken(log.headers) \subseteq {"content-type", "cache-control"}

\* C6: a request that finds the entry of an identical earlier request
\* within its TTL makes no upstream fetch, so the two make one fetch in
\* all; a request that finds the entry past its TTL is not answered from
\* the cache but fetches again.
C6_OneFetchWithinTtl ==
    /\ \A c \in Fetching : c.found # "live"
    /\ (Sending /\ log.found = "expired") => log.kind = "fetched"

\* A request is answered from the entry an identical request stored
\* earlier, while another fetches again for an entry found expired.
C6_Witness ==
    /\ Sending /\ log.kind = "hit" /\ log.found = "live"
    /\ log.by = log.req /\ log.ins < now
    /\ \E c \in Fetching : c.found = "expired"

\* C7: a lookup never returns an entry whose age, now minus the time of
\* insertion, exceeds the TTL it was stored with, swept or not.
C7_NoStaleHit ==
    (Sending /\ log.kind = "hit") => now - log.ins <= log.ttl

\* A lookup has met an entry past its TTL that no sweep had removed: it
\* missed and removed the entry, and the request fetches.
C7_Witness ==
    \E c \in Fetching : c.found = "expired" /\ c.key \notin DOMAIN cache

\* C8: two requests that differ only in the value of one query parameter
\* have distinct cache keys: neither is answered with the entry the other
\* stored.
C8_DistinctKeys ==
    (Sending /\ log.kind = "hit") =>
        /\ ~DifferInOneValue(log.req, log.by)
        /\ \A k \in DOMAIN cache :
              DifferInOneValue(log.req, cache[k].by) => k # CacheKey(log.req)

\* C9: two widget requests with the same parameters in another order have
\* the same key: the second never fetches while the first's entry is live.
C9_CanonicalKey ==
    \A c \in Fetching : c.req.route = "widget" => ~c.twin

\* C10: a request naming no configured provider, or no widget type of its
\* provider, is answered 404 with a body that lists the configured
\* providers, or the provider's widget types.
C10_NotFound ==
    (Sending /\ Validate(config, log.req) # <<>>) =>
        /\ log.status = 404
        /\ LET valid == IF log.req.provider \notin DOMAIN config.providers
                        THEN DOMAIN config.providers
                        ELSE DOMAIN config.providers[log.req.provider].widgetTypes
           IN \E f \in DOMAIN log.json : valid \subseteq Mentions(log.json[f])


\* A request that names no configured provider, or no widget type of it.
Unknown(r) ==
    \/ r.provider \notin DOMAIN config.providers
    \/ r.route = "widget"
       /\ r.resource \notin DOMAIN config.providers[r.provider].widgetTypes

\* C11: the handling of a request for an unknown provider or widget type
\* starts no upstream call and leaves the cache as it was, entries and
\* their expiry included, whatever the cache holds.
C11_UnknownLeavesCache ==
    [][/\ \A c \in BagToSet(calls') : ~Unknown(c.req)
       /\ (log = Empty /\ log' # Empty /\ Unknown(log'.req)) =>
              (calls' = calls /\ cache' = cache)]_vars

\* A request for an unknown provider or widget type is answered while the
\* cache holds an entry, live or expired, and a call awaits the upstream.
C11_Witness ==
    /\ Sending /\ Unknown(log.req)
    /\ cache # Empty /\ calls # Empty
    /\ \E k \in DOMAIN cache : Found(cache, k, now) = "expired"

\* C12: when the cache holds maxKeys keys and the result of a request that
\* missed on a new key is stored, an entry inserted no later than any
\* other is evicted, the new entry is in, the request is answered with its
\* result and the cache holds no more than maxKeys keys.
C12_EvictsWhenFull ==
    [][\A h \in BagToSet(calls), status \in {200, 404} :
          (Complete(h, status) /\ CacheFull(cache, config) /\ h.key \notin DOMAIN cache) =>
              /\ log'.kind = "fetched" /\ log'.status = status
              /\ h.key \in DOMAIN cache'
              /\ Cardinality(DOMAIN cache') <= config.cache.maxKeys
              /\ \E k \in DOMAIN cache \ DOMAIN cache' :
                    \A j \in DOMAIN cache : cache[k].ins <= cache[j].ins]_vars

\* C13: no request crashes the process: on every route and for every
\* outcome of the upstream no exception escapes the handler or a listener.
C13_NoCrash == phase # "crashed"

\* C14: every upstream fetch has a bounded timeout: a proxied request whose
\* upstream never answers, or stalls in the body, is answered in the end.
C14_AnsweredInTheEnd == (phase = "stalled") ~> (phase \in {"done", "failed"} /\ res.ended)

\* The client of the request under way has disconnected.
ClientGone == phase = "unpiped"

\* The upstream request is made and its connection is neither ended by the
\* upstream, nor failed, nor destroyed by the proxy.
UpstreamOpen == phase \in {"connecting", "streaming", "buffering", "stalled", "unpiped"}

\* C15: when the client disconnects while a response is streamed, the
\* proxy releases the upstream connection: none stays open for a request
\* whose client is gone.
C15_ReleasesUpstream == ClientGone => ~UpstreamOpen

\* C16: when the upstream request fails at the connection level the client
\* is sent a status of the 500 class and a JSON body with error and
\* message, and nothing else.
C16_ErrorIsJson ==
    [][OnError =>
          /\ res'.ended /\ res'.status \in 500..599
          /\ res'.body = Json("Proxy Error", <<"err.message">>)]_vars

\* C17: in stream mode and in transform mode the status written to the
\* client is the upstream's, 4xx and 5xx included, and the body is not a
\* proxy error.
C17_StatusForwarded ==
    (Answered /\ (phase \in {"streaming", "unpiped"} \/ phase = "done")) =>
        /\ res.status = up.statusCode
        /\ res.body # Json("Proxy Error", <<"err.message">>)

\* A transformed response to an upstream 503 is complete.
C17_Witness ==
    TransformDone /\ up.statusCode = 503 /\ res.ended /\ Len(up.chunks) > 0

\* The headers that may tell on the upstream request.
Forwarded == {"user-agent", "referer", "accept-encoding"}

C19_SevenHeaders ==
    (Sending /\ log.kind # "error") => DOMAIN corsHeaders \subseteq DOMAIN log.headers

\* C20: a request of method OPTIONS is answered 200 with the fixed header
\* set, whatever its path, and no upstream request is made for it.
C20_Preflight ==
    (phase # "idle" /\ req.method = "OPTIONS") =>
        /\ phase = "done" /\ res.ended
        /\ res.status = 200 /\ res.headers = corsHeaders
        /\ call = NoCall /\ up = NoUp

\* The preflight of the path of a proxied route, and of no route, is answered.
C20_Witness ==
    /\ phase = "done" /\ req.method = "OPTIONS"
    /\ req.pathname \in {WidgetPath, Path(<<widgetId, "licensing">>)}

\* The upstream labelled the body gzip, br or deflate and the bytes are
\* not in that format.
BadlyLabelled ==
    /\ Has(up.headers, "content-encoding")
    /\ up.headers["content-encoding"] \in Zlib
    /\ up.z # up.headers["content-encoding"]

\* C21: when the decompression of the buffered body fails in transform
\* mode the raw bytes are the input of the rewrite, the client is sent a
\* response with the upstream's status, and no error.
C21_DecompressionFallback ==
    (TransformDone /\ BadlyLabelled) =>
        /\ res.ended
        /\ res.status = up.statusCode
        /\ res.body = BufferFrom(RewriteWidgetScript(BufferToString(Concat(up.z, up.chunks))))
        /\ res.body # Json("Proxy Error", <<"err.message">>)

\* A body labelled gzip that is plain text with a feed host: served 404 as
\* upstream, the host rewritten.
C21_Witness ==
    /\ TransformDone /\ BadlyLabelled
    /\ up.statusCode = 404
    /\ Count(Flatten(up.chunks), HostLt) = 1
    /\ Count(res.body.bytes, ProxyLt) = 1

\* The TTL the provider configures for the resource of request r (0: none):
\* scripts for a widget loader, chunks for an asset path with 'chunk.' in
\* it, assets for any other.
ConfiguredTtl(cfg, r) ==
    LET ttls == cfg.providers[r.provider].cache
    IN IF r.route = "widget" THEN ttls.scripts
       ELSE IF IncludesChunk(AssetPath(r)) THEN ttls.chunks
       ELSE ttls.assets

\* C22: a result is stored under the provider's TTL for its resource type
\* when one is configured, and under the default TTL when none is.
C22_TtlResolution ==
    \A k \in DOMAIN cache :
        cache[k].ttl = IF ConfiguredTtl(config, cache[k].by) # 0
                       THEN ConfiguredTtl(config, cache[k].by)
                       ELSE config.cache.defaultTtl

\* A handler answers with the error of a fetch that did not succeed, or
\* whose result the cache refused.
FetchFailed ==
    /\ log = Empty /\ log' # Empty
    /\ log'.kind = "error" /\ calls' # calls

\* C23: a failed fetch leaves the cache exactly as it was, and an entry is
\* created or replaced only by the handler of a fetch that succeeded, under
\* the key of its request.
C23_OnlySuccessStores ==
    [][/\ FetchFailed => cache' = cache
       /\ \A k \in DOMAIN cache' :
             (k \notin DOMAIN cache \/ cache'[k] # cache[k]) =>
                 (log'.kind = "fetched" /\ CacheKey(log'.req) = k)]_vars

\* A fetch has failed while the cache holds another key's entry and none
\* for the key of the request; an earlier request for that key had failed
\* or expired, and the next one will miss.
C23_Witness ==
    /\ Sending /\ log.kind = "error"
    /\ log.json.message = FetchError(log.req, <<"upstream">>)
    /\ cache # Empty
    /\ CacheKey(log.req) \notin DOMAIN cache

\* The content types of text: script, JSON, CSS, HTML.
Textual ==
    {"application/javascript", "text/javascript", "application/json",
     "text/css", "text/html"}

\* C24: a response whose upstream content type is not textual is not
\* decoded as text and rewritten: the client is sent the bytes of the
\* upstream body, decompressed at most.
C24_TextOnly ==
    (phase = "done" /\ Answered /\ Has(up.headers, "content-type")
        /\ up.headers["content-type"] \notin Textual) =>
        res.body.bytes = Flatten(up.chunks)

\* Call h awaits the upstream together with another call for its key: both
\* missed before either stored.
MissedTogether(h) ==
    \E g \in BagToSet(calls) : g.key = h.key /\ (g # h \/ CopiesIn(h, calls) > 1)

\* The result of the fetch of call h answered with status.
OwnResult(h, status) ==
    ProxyResult(h.req, status, ClientHeaders(SiteHeaders(site)),
                ContentOf(UpstreamRequest(config, h.req)))

\* C25: of two requests that missed on one key together, each is answered
\* with the result of its own fetch when that fetch succeeds, and the cache
\* then holds for the key one whole entry, the result of one of the two.
C25_EachItsOwn ==
    [][\A h \in BagToSet(calls), status \in {200, 404} :
          (Complete(h, status) /\ MissedTogether(h)) =>
              /\ log'.kind = "fetched"
              /\ log'.status = status /\ log'.data = OwnResult(h, status).data
              /\ h.key \in DOMAIN cache'
              /\ cache'[h.key].v = OwnResult(h, status)]_vars

\* C26: no request reaches the branch of the handler that reads
\* SPORTRADAR_BASE: whatever the method and the path, an earlier route
\* check has answered.
C26_BranchUnreachable ==
    req # NoReq => \A readable \in SUBSET StaticFiles : Route(req, readable).kind # "throw"

\* server.js 227, 245, 260: the file a static route reads.
FileOf(pathname) ==
    CASE pathname \in {<<"/">>, Path(<<"demo">>)} -> "demo.html"
      [] pathname = Path(<<"loader", "theme.css">>) -> "theme.css"
      [] pathname = Path(<<"loader", "preview.html">>) -> "preview.html"
      [] OTHER -> "none"

\* C27: a request of a static route whose file cannot be read is answered
\* once, by the 404 JSON that echoes its method and path; nothing crashes
\* and nothing of the route's own response is sent.
C27_MissingFileFallsThrough ==
    [][(/\ phase = "idle" /\ phase' # "idle"
        /\ req'.method # "OPTIONS"
        /\ FileOf(req'.pathname) \in StaticFiles) =>
          \A readable \in SUBSET (StaticFiles \ {FileOf(req'.pathname)}) :
              HandleRequest(req', readable) =>
                  /\ phase' = "done" /\ call' = NoCall
                  /\ res' = [status |-> 404,
                             headers |-> ("content-type" :> "application/json") @@ corsHeaders,
                             body |-> Json("Not Found", <<"Route", req'.method>> \o req'.pathname),
                             ended |-> TRUE]]_vars

\* The stylesheet of the loader could not be read: its request got the 404.
C27_Witness ==
    /\ phase = "done" /\ req.method = "GET"
    /\ req.pathname = Path(<<"loader", "theme.css">>)
    /\ res.status = 404 /\ res.ended
    /\ res.body = Json("Not Found", <<"Route", "GET">> \o req.pathname)

\* C28: a feed URL https://{name}.sir-sportradar.com/P?Q in the script is
\* rewritten to a URL of this server whose request is proxied in stream
\* mode to that same feed URL, host, path and query.
C28_FeedRoundTrip ==
    (phase # "idle" /\ up # NoUp) =>
        /\ call.targetUrl = Flatten(up.chunks)
        /\ ~call.rewriteWidgetScript

\* A handler answers from the cache.
Hit == log = Empty /\ log' # Empty /\ log'.kind = "hit"

\* C29: a hit starts no upstream call, answers with the stored result,
\* and leaves the cache as it was: the entry's insertion time and expiry
\* stay, so hits never prolong its life.
C29_HitReadOnly ==
    [][Hit =>
          LET key == CacheKey(log'.req) IN
          /\ calls' = calls
          /\ cache' = cache
          /\ key \in DOMAIN cache
          /\ log'.status = cache[key].v.status
          /\ log'.data = cache[key].v.data
          /\ log'.headers = ("content-type" :> cache[key].v.contentType) @@ cache[key].v.headers
          /\ cache'[key].t = cache[key].ins + cache[key].ttl]_vars

\* A hit in the last second of the entry's life, while a call awaits the
\* upstream.
C29_Witness ==
    /\ Sending /\ log.kind = "hit"
    /\ log.ins < now /\ now = log.ins + log.ttl
    /\ calls # Empty
    /\ cache[CacheKey(log.req)].t = now

\* A step of proxyRequest or of the handler calls res.writeHead: the error
\* listener, which always does (server.js 193), or a step that sets the
\* status of the client response.
WritesHead == OnError \/ (res'.status # 0 /\ res'.status # res.status)

\* C30: the status line of a request is written at most once: a step that
\* calls writeHead finds no status line written, in whatever order the
\* upstream's response, data, end and error arrive.
C30_HeadWrittenOnce ==
    [][WritesHead => res.status = 0]_vars

\* C31: an upstream answer with a 4xx status is handled as a success: the
\* request is answered with it, it is stored under the request's key with
\* the TTL of the resource, and a later hit on the entry answers the same
\* 4xx without a call to the upstream.
C31_ClientErrorStored ==
    [][/\ \A h \in BagToSet(calls) :
             Complete(h, 404) =>
                 /\ log'.kind = "fetched" /\ log'.status = 404
                 /\ h.key \in DOMAIN cache'
                 /\ cache'[h.key].v = OwnResult(h, 404)
                 /\ cache'[h.key].ins = now
                 /\ cache'[h.key].ttl = CacheTtl(config, h.req)
       /\ (Hit /\ cache[CacheKey(log'.req)].v.status = 404) =>
              (log'.status = 404 /\ calls' = calls)]_vars

\* The four rules, numbered in the order of proxyRequest.
Rules == <<LmtFieldRule, CardsFieldRule, LtHostRule, WsHostRule>>

\* The orders the four rules can be applied in.
Orders == { order \in [1..4 -> 1..4] : \A i, j \in 1..4 : order[i] = order[j] => i = j }

\* The text after the four rules applied in the given order.
ApplyInOrder(text, order) ==
    ApplyRule(ApplyRule(ApplyRule(ApplyRule(text, Rules[order[1]]),
                                  Rules[order[2]]), Rules[order[3]]), Rules[order[4]])

\* C32: the rewritten script is the text the four substitutions give in
\* any order, not only in the order of proxyRequest.
C32_OrderIndependent ==
    TransformDone =>
        \A order \in Orders :
            ApplyInOrder(BufferToString(Concat(up.z, up.chunks)), order) = res.body.bytes

\* A script with the cards field and a bare lt-fn host, both rewritten.
C32_Witness ==
    /\ TransformDone
    /\ Count(Flatten(up.chunks), CardsFieldRule.pat) = 1
    /\ Count(Flatten(up.chunks), HostLt) = 1
    /\ Count(res.body.bytes, ProxyWs) = 1
    /\ Count(res.body.bytes, ProxyLt) = 1

====
